---- MODULE Spec2Model ----
(***************************************************************************)
(* A model of the retrieval-augmented question answering pipeline:        *)
(*   src/src/pdf_extractor.py  PDFExtractor, extract_all_pdfs             *)
(*   src/src/vector_store.py   VectorStore                                *)
(*   src/src/qa_system.py      QASystem                                   *)
(*   src/src/main.py           setup_knowledge_base                       *)
(*                                                                         *)
(* A text is not modelled character by character: a chunk's text is the   *)
(* slice [start, start+len) of the cleaned paragraph it was cut from,     *)
(* named by the paragraph's origin (file, page index, paragraph index).   *)
(***************************************************************************)
EXTENDS Integers, Sequences, FiniteSets, TLC

VARIABLES
    \* ---- PDFExtractor.extract_text_with_metadata on one document
    seg_pc,        \* "ready" | "done"
    seg_doc,       \* the opened document: [filename, pages]
    seg_chunks,    \* the returned all_chunks
    \* ---- VectorStore: the persistent collection and the last call on it
    collection,    \* self.collection: the records, in insertion order
    vs_call,       \* the last method called, with its arguments
    vs_ret,        \* what it returned: [raised, value]
    vs_log,        \* what it printed
    vs_query,      \* similarity_search: the results the collection reported
    \* ---- QASystem.generate_answer and the completion service
    api_key,       \* self.api_key is set
    qa_pc,         \* "idle" | "waiting" (request sent) | "done"
    qa_in,         \* the arguments: [query, retrieved_documents]
    qa_request,    \* the payload posted to the completion service
    qa_resp,       \* what the service did with it
    qa_ret,        \* what generate_answer returned: [raised, value]
    \* ---- main.setup_knowledge_base over the disk and the collection
    pdf_files,     \* the PDF files of pdf_dir, in os.listdir order
    dir_exists,    \* data/extracted exists
    csv_files,     \* its files: name -> the CSV written
    force_rebuild, \* the flag of the run
    b_pc,          \* where the run is
    b_i,           \* extract_all_pdfs: index of the next file of pdf_files
    extracted_chunks, \* extract_all_pdfs: all_chunks (line 31 once returned)
    all_chunks,    \* setup_knowledge_base: all_chunks loaded from the CSVs
    b_log,         \* what the run printed, as tags
    b_err,         \* the exception that ended the run, if one did
    runs,          \* how many runs were started
    \* ---- VectorStore.__init__: loading the embedding model
    load_pc,       \* "idle" | "try" | "sleep" | "offline" | "loaded" | "failed"
    attempt,       \* the loop variable of the retry loop
    model,         \* self.model
    load_calls,    \* the SentenceTransformer calls made, each with its outcome
    sleeps,        \* the time.sleep calls made: their wait_time, in seconds
    load_ret,      \* how __init__ left the loop: [raised, value]
    \* ---- PDFExtractor._extract_paragraphs_from_page: the scan of the blocks
    scan_pc,       \* "idle" | "block" (between blocks) | "line" (in one) | "done"
    scan_pos,      \* how many blocks, and lines of the current block, were read
    block,         \* the block being read
    line,          \* the last line that had text
    paragraphs,    \* the paragraphs closed so far
    current_paragraph, \* the lines of the open paragraph
    last_block_type,   \* the type of the last block read to its end
    last_y1,       \* the bottom of the last line that had text
    scan_ret       \* what the scan returned: [fallback, value]

segVars == <<seg_pc, seg_doc, seg_chunks>>
storeVars == <<collection, vs_call, vs_ret, vs_log, vs_query>>
qaVars == <<api_key, qa_pc, qa_in, qa_request, qa_resp, qa_ret>>

diskVars == <<pdf_files, dir_exists, csv_files>>
runVars == <<force_rebuild, b_pc, b_i, extracted_chunks, all_chunks, b_log, b_err, runs>>
buildVars == <<diskVars, runVars>>

loadVars == <<load_pc, attempt, model, load_calls, sleeps, load_ret>>
scanVars == <<scan_pc, scan_pos, block, line, paragraphs, current_paragraph,
              last_block_type, last_y1, scan_ret>>

vars == <<seg_pc, seg_doc, seg_chunks, collection, vs_call, vs_ret, vs_log, vs_query,
          api_key, qa_pc, qa_in, qa_request, qa_resp, qa_ret,
          pdf_files, dir_exists, csv_files, force_rebuild, b_pc, b_i,
          extracted_chunks, all_chunks, b_log, b_err, runs,
          load_pc, attempt, model, load_calls, sleeps, load_ret,
          scan_pc, scan_pos, block, line, paragraphs, current_paragraph,
          last_block_type, last_y1, scan_ret>>

(***************************************************************************)
(* Sequence helpers                                                        *)
(***************************************************************************)
RECURSIVE Concat(_)
Concat(ss) == IF ss = <<>> THEN <<>> ELSE Head(ss) \o Concat(Tail(ss))

SeqsUpTo(S, n) == UNION {[1..k -> S] : k \in 0..n}

Min(a, b) == IF a <= b THEN a ELSE b

\* How a call ended: it returned v, or the exception e left it.
Returned(v) == [raised |-> FALSE, value |-> v]
Raised(e) == [raised |-> TRUE, value |-> e]
NoValue == "None"

\* The values of the variables of a part of the program that is not running.
NoQuery == [documents |-> <<>>, metadatas |-> <<>>, distances |-> <<>>]
NoBlock == [has_lines |-> FALSE, type |-> NoValue, y0 |-> 0]
NoScan == [fallback |-> FALSE, value |-> <<>>]
NoLine == [has_spans |-> FALSE, spans |-> <<>>, top |-> 0, bottom |-> 0, block_type |-> NoValue]

(***************************************************************************)
(* PDFExtractor.extract_text_with_metadata                                 *)
(***************************************************************************)
\* Defaults of extract_text_with_metadata(chunk_size=500, overlap=50); the only
\* caller, save_extracted_text, passes neither.
chunk_size == 500
overlap == 50
\* "if not cleaned_text or len(cleaned_text) < 10: continue"
MinParagraphLen == 10
\* "if len(chunk_text) < 50: continue"
MinChunkLen == 50

\* len(cleaned_text[i:i + n]) for a text of length L: Python clips the slice.
SliceLen_Unclipped(L, i, n) == IF i >= L THEN 0 ELSE L - i
SliceLen(L, i, n) == IF i >= L THEN 0 ELSE Min(n, L - i)

\* cleaned_text[i:i + n] of the paragraph `of`
Slice(of, L, i, n) == [of |-> of, start |-> i, len |-> SliceLen(L, i, n)]

\* the step of range(0, len(cleaned_text), chunk_size - overlap)
Step_NoOverlap(cs, ov) == cs
Step(cs, ov) == cs - ov

\* The paragraph is skipped: "not cleaned_text or len(cleaned_text) < 10"
TooShort(L) == L = 0 \/ L < MinParagraphLen

\* page_num + 1, para_num + 1 (0-based loop indexes to 1-based numbers)
OneBased(n) == n + 1

\* The loop "for i in range(0, L, step)" from offset i on: the chunks of a long
\* paragraph, each with metadata.copy() plus chunk_number = i // step + 1.
RECURSIVE SplitFrom(_, _, _, _)
SplitFrom(of, L, i, metadata) ==
    IF i >= L THEN <<>>
    ELSE LET chunk_text == Slice(of, L, i, chunk_size)
             chunk_metadata ==
                 [k \in DOMAIN metadata \cup {"chunk_number"} |->
                     IF k = "chunk_number"
                     THEN (i \div Step(chunk_size, overlap)) + 1
                     ELSE metadata[k]]
             rest == SplitFrom(of, L, i + Step(chunk_size, overlap), metadata)
         IN  IF chunk_text.len < MinChunkLen
             THEN rest
             ELSE <<[text |-> chunk_text, metadata |-> chunk_metadata]>> \o rest

\* The body of the loop over enumerate(paragraphs) for one paragraph whose
\* cleaned text has length L.
ParagraphChunks(filename, num_pages, page_num, para_num, L) ==
    IF TooShort(L) THEN <<>>
    ELSE LET of == <<filename, page_num, para_num>>
             metadata == [source |-> filename,
                          page_number |-> OneBased(page_num),
                          paragraph_number |-> OneBased(para_num),
                          total_pages |-> num_pages]
         IN  IF L <= chunk_size
             THEN <<[text |-> Slice(of, L, 0, L), metadata |-> metadata]>>
             ELSE SplitFrom(of, L, 0, metadata)

\* One page: paras is the sequence of cleaned-text lengths of the page's
\* paragraphs, in the order _extract_paragraphs_from_page returned them.
PageChunks(filename, num_pages, page_num, paras) ==
    Concat([q \in 1..Len(paras) |->
               ParagraphChunks(filename, num_pages, page_num, q - 1, paras[q])])

\* The whole document: all_chunks as returned.
extract_text_with_metadata(filename, pages) ==
    Concat([p \in 1..Len(pages) |->
               PageChunks(filename, Len(pages), p - 1, pages[p])])

(***************************************************************************)
(* VectorStore                                                             *)
(***************************************************************************)
collection_name == "intelligent_data_engineering"

\* str(v) of the metadata value v under key k: "source" holds the file name, a
\* string already; every other key holds an integer, written in decimal.
StrOf(k, v) == IF k = "source" THEN v ELSE ToString(v)

\* self.collection.count()
Count(coll) == Len(coll)

\* reset_collection: delete_collection + get_or_create_collection when the
\* collection holds records, nothing otherwise.
reset_collection_OffByOne(coll) == IF Count(coll) > 1 THEN <<>> ELSE coll
reset_collection(coll) == IF Count(coll) > 0 THEN <<>> ELSE coll

reset_log(coll) ==
    IF Count(coll) > 0
    THEN <<[msg |-> "resetting", n |-> Count(coll)], [msg |-> "reset"]>>
    ELSE <<[msg |-> "empty_no_reset"]>>

\* The record add_documents builds for chunks[i]: id "chunk_{i}" (0-based),
\* the text, and every metadata value turned into a string.
RecordOf(chunks, i) ==
    [id |-> "chunk_" \o ToString(i - 1),
     document |-> chunks[i].text,
     metadata |-> [k \in DOMAIN chunks[i].metadata |-> StrOf(k, chunks[i].metadata[k])]]

\* collection.add(ids, documents, metadatas) appends the records
CollectionAdd(coll, records) == coll \o records

\* add_documents: returns at once when the collection holds a record
add_documents_NoGuard(coll, chunks) ==
    CollectionAdd(coll, [i \in 1..Len(chunks) |-> RecordOf(chunks, i)])
add_documents(coll, chunks) ==
    IF Count(coll) > 0
    THEN coll
    ELSE CollectionAdd(coll, [i \in 1..Len(chunks) |-> RecordOf(chunks, i)])

add_log(coll, chunks) ==
    IF Count(coll) > 0
    THEN <<[msg |-> "already_contains", n |-> Count(coll)]>>
    ELSE <<[msg |-> "adding", n |-> Len(chunks)],
           [msg |-> "added", n |-> Len(chunks)],
           [msg |-> "now_contains", n |-> Count(add_documents(coll, chunks))]>>

\* get_stats
get_stats(coll) ==
    [document_count |-> Count(coll), collection_name |-> collection_name]

\* Distances are counted in units of 1/DistScale: the cosine distance the store
\* reports lies in [0, 2].
DistScale == 1
Distances == 0..(2 * DistScale)

\* The indexes 1..n of the records ordered by increasing distance d[i], ties in
\* index order, without those in `done`.
RECURSIVE NearestFrom(_, _, _)
NearestFrom(d, n, done) ==
    IF done = 1..n THEN <<>>
    ELSE LET i == CHOOSE i \in (1..n) \ done :
                     \A j \in (1..n) \ done :
                         d[i] < d[j] \/ (d[i] = d[j] /\ i <= j)
         IN  <<i>> \o NearestFrom(d, n, done \cup {i})

\* collection.query(query_texts=[query], n_results=n): the n nearest records,
\* all of them when the collection holds fewer; d[i] is the distance of record i
\* to the query. The value is results[...][0] of the three lists.
CollectionQuery(coll, n, d) ==
    LET order == NearestFrom(d, Len(coll), {})
        m == Min(n, Len(coll))
    IN  [documents |-> [j \in 1..m |-> coll[order[j]].document],
         metadatas |-> [j \in 1..m |-> coll[order[j]].metadata],
         distances |-> [j \in 1..m |-> d[order[j]]]]

\* zip(documents, metadatas, distances) stops with the shortest list
ZipLen(r) == Min(Len(r.documents), Min(Len(r.metadatas), Len(r.distances)))

\* The formatted_results of a query result r; similarity = 1 - dist, in units
\* of 1/DistScale.
FormatResults(r) ==
    [j \in 1..ZipLen(r) |->
        [text |-> r.documents[j],
         metadata |-> r.metadatas[j],
         similarity |-> DistScale - r.distances[j]]]

\* similarity_search(query, top_k)
\* (without n_results=top_k the store's own default of 10 results applies)
similarity_search_DefaultN(coll, top_k, d) ==
    FormatResults(CollectionQuery(coll, 10, d))
similarity_search(coll, top_k, d) ==
    FormatResults(CollectionQuery(coll, top_k, d))

(***************************************************************************)
(* QASystem                                                                *)
(*                                                                         *)
(* A string is a sequence of tokens. The token "[Source" is the opening of *)
(* a citation tag (the code writes it "[来源"), "claim" a statement that   *)
(* answers the question, "decline" a statement that it cannot be answered. *)
(***************************************************************************)
CitationOpen == "[Source"

\* doc["metadata"].get(key, "Unknown")
MetaGet(metadata, key) ==
    IF key \in DOMAIN metadata THEN metadata[key] ELSE "Unknown"

\* format_context: per document, in order, the reference tag and the text.
format_context(retrieved_documents) ==
    Concat([i \in 1..Len(retrieved_documents) |->
        LET doc == retrieved_documents[i] IN
        <<CitationOpen, ToString(i),
          MetaGet(doc.metadata, "source"),
          MetaGet(doc.metadata, "page_number"),
          MetaGet(doc.metadata, "paragraph_number"),
          doc.text>>])

\* The payload of the POST to /chat/completions.
Payload(query, retrieved_documents) ==
    [model |-> "Qwen/Qwen2.5-72B-Instruct",
     messages |-> <<[role |-> "system", content |-> <<"system_prompt">>],
                    [role |-> "user",
                     content |-> format_context(retrieved_documents) \o <<query>>]>>,
     stream |-> FALSE]

\* response.raise_for_status(): a status that is not 2xx raises.
StatusRaises(status) == ~(status >= 200 /\ status <= 299)

\* response.json()["choices"][0]["message"]["content"]: the content, or the
\* exception the lookup raises.
ParseContent(body) ==
    IF body.kind # "json" THEN Raised("JSONDecodeError")
    ELSE IF "choices" \notin DOMAIN body.data THEN Raised("KeyError")
    ELSE IF Len(body.data.choices) = 0 THEN Raised("IndexError")
    ELSE IF "message" \notin DOMAIN body.data.choices[1] THEN Raised("KeyError")
    ELSE IF "content" \notin DOMAIN body.data.choices[1].message THEN Raised("KeyError")
    ELSE Returned(body.data.choices[1].message.content)

\* What the try block of generate_answer ends with, given what the service
\* did: the answer, or the exception raised inside it.
TryBlock(resp) ==
    IF resp.kind = "transport" THEN Raised(resp.error)
    ELSE IF StatusRaises(resp.status) THEN Raised("HTTPStatusError")
    ELSE ParseContent(resp.body)

\* error_msg = f"生成答案时出错: {str(e)}"
ErrorMarker == "error generating answer:"
ErrorMsg(e) == <<ErrorMarker, e>>

\* "except Exception as e": every exception of the try block is caught and the
\* error message returned.
Handle_OnlyHttpErrors(t) ==
    IF ~t.raised THEN Returned(t.value)
    ELSE IF t.value = "HTTPStatusError" THEN Returned(ErrorMsg(t.value))
    ELSE Raised(t.value)
Handle(t) ==
    IF t.raised THEN Returned(ErrorMsg(t.value)) ELSE Returned(t.value)

\* The early return of generate_answer when self.api_key is not set.
NoKeyMsg == <<"error: api key not set">>

(***************************************************************************)
(* Specification SpecQA: generate_answer against the completion service    *)
(***************************************************************************)
MaxDocs == 2

\* Retrieved documents as similarity_search returns them: the records of a
\* two-chunk collection, and one record whose metadata lacks the page keys.
QADocs ==
    LET chunks == extract_text_with_metadata("a.pdf", <<<<chunk_size>>>>)
        coll == add_documents(<<>>, chunks)
    IN  {[text |-> coll[1].document, metadata |-> coll[1].metadata, similarity |-> 1],
         [text |-> coll[1].document, metadata |-> [source |-> "b.pdf"], similarity |-> 0]}

\* Completion texts the service may send.
Contents ==
    {<<"decline">>,
     <<"claim", CitationOpen, "1", "a.pdf", "1", "1">>,
     <<"claim">>,
     <<>>}

\* Response bodies: well-formed ones and the malformed shapes.
Bodies ==
    {[kind |-> "json", data |-> [choices |-> <<[message |-> [content |-> c]]>>]] :
        c \in Contents}
    \cup {[kind |-> "text"],
          [kind |-> "json", data |-> [error |-> "overloaded"]],
          [kind |-> "json", data |-> [choices |-> <<>>]],
          [kind |-> "json", data |-> [choices |-> <<[index |-> 0]>>]],
          [kind |-> "json", data |-> [choices |-> <<[message |-> [role |-> "assistant"]]>>]]}

Statuses == {200, 404, 500}
TransportErrors == {"ConnectError", "ReadTimeout"}

NoRequest == [model |-> "none"]
NoResponse == [kind |-> "none"]

\* generate_answer is called: without an api key it returns at once, with one
\* it posts the request and waits.
QaAsk ==
    /\ qa_pc \in {"idle", "done"}
    /\ \E docs \in SeqsUpTo(QADocs, MaxDocs) :
        /\ qa_in' = [query |-> "q", retrieved_documents |-> docs]
        /\ IF ~api_key
           THEN /\ qa_pc' = "done"
                /\ qa_request' = NoRequest
                /\ qa_ret' = Returned(NoKeyMsg)
           ELSE /\ qa_pc' = "waiting"
                /\ qa_request' = Payload("q", docs)
                /\ qa_ret' = Returned(NoValue)
    /\ qa_resp' = NoResponse
    /\ UNCHANGED <<api_key, segVars, storeVars, buildVars, loadVars, scanVars>>

\* client.post raises: no connection, or the 120 s timeout.
QaTransportError ==
    /\ qa_pc = "waiting"
    /\ \E e \in TransportErrors :
        /\ qa_resp' = [kind |-> "transport", error |-> e]
        /\ qa_ret' = Handle(TryBlock(qa_resp'))
    /\ qa_pc' = "done"
    /\ UNCHANGED <<api_key, qa_in, qa_request, segVars, storeVars, buildVars, loadVars, scanVars>>

\* The service answers with an HTTP response.
QaHttpResponse ==
    /\ qa_pc = "waiting"
    /\ \E status \in Statuses, body \in Bodies :
        /\ qa_resp' = [kind |-> "http", status |-> status, body |-> body]
        /\ qa_ret' = Handle(TryBlock(qa_resp'))
    /\ qa_pc' = "done"
    /\ UNCHANGED <<api_key, qa_in, qa_request, segVars, storeVars, buildVars, loadVars, scanVars>>

QaNext == QaAsk \/ QaTransportError \/ QaHttpResponse

QaInit ==
    /\ api_key \in BOOLEAN
    /\ qa_pc = "idle"
    /\ qa_in = [query |-> "", retrieved_documents |-> <<>>]
    /\ qa_request = NoRequest
    /\ qa_resp = NoResponse
    /\ qa_ret = Returned(NoValue)
    /\ seg_pc = "idle"
    /\ seg_doc = [filename |-> "", pages |-> <<>>]
    /\ seg_chunks = <<>>
    /\ collection = <<>>
    /\ vs_call = [op |-> "__init__"]
    /\ vs_ret = Returned(NoValue)
    /\ vs_log = <<>>
    /\ pdf_files = <<>>
    /\ dir_exists = FALSE
    /\ csv_files = <<>>
    /\ force_rebuild = FALSE
    /\ b_pc = "idle"
    /\ b_i = 0
    /\ extracted_chunks = <<>>
    /\ all_chunks = <<>>
    /\ b_log = <<>>
    /\ b_err = "none"
    /\ runs = 0
    /\ vs_query = NoQuery
    /\ load_pc = "idle"
    /\ attempt = 0
    /\ model = NoValue
    /\ load_calls = <<>>
    /\ sleeps = <<>>
    /\ load_ret = Returned(NoValue)
    /\ scan_pc = "idle"
    /\ scan_pos = [blocks |-> 0, lines |-> 0]
    /\ block = NoBlock
    /\ line = NoLine
    /\ paragraphs = <<>>
    /\ current_paragraph = <<>>
    /\ last_block_type = NoValue
    /\ last_y1 = 0
    /\ scan_ret = NoScan

SpecQA == QaInit /\ [][QaNext]_vars

(***************************************************************************)
(* Claims on the QASystem, under SpecQA                                    *)
(***************************************************************************)
\* The body carries choices[0].message.content.
C8_HasContent(body) ==
    /\ body.kind = "json"
    /\ "choices" \in DOMAIN body.data
    /\ Len(body.data.choices) >= 1
    /\ "message" \in DOMAIN body.data.choices[1]
    /\ "content" \in DOMAIN body.data.choices[1].message

\* The call to the completion service failed: a transport error or timeout,
\* a status that is not 2xx, or a response without the content.
C8_Failed(resp) ==
    \/ resp.kind = "transport"
    \/ resp.kind = "http" /\ (resp.status < 200 \/ resp.status > 299)
    \/ resp.kind = "http" /\ ~C8_HasContent(resp.body)

\* C8: when the completion service call fails in any way, generate_answer
\* raises nothing and returns a string carrying the error marker; when it
\* succeeds, generate_answer returns the completion text verbatim.
C8_FailureBecomesAnswer ==
    (qa_pc = "done" /\ qa_resp.kind # "none") =>
        /\ qa_ret.raised = FALSE
        /\ C8_Failed(qa_resp) =>
               (Len(qa_ret.value) >= 1 /\ qa_ret.value[1] = ErrorMarker)
        /\ ~C8_Failed(qa_resp) =>
               qa_ret.value = qa_resp.body.data.choices[1].message.content

\* C8 witness: the service answered 200 with a body that has no choices, and
\* generate_answer returned the error message of the KeyError.
C8_Witness ==
    /\ qa_pc = "done"
    /\ qa_resp.kind = "http"
    /\ qa_resp.status = 200
    /\ qa_resp.body = [kind |-> "json", data |-> [error |-> "overloaded"]]
    /\ qa_ret = Returned(<<ErrorMarker, "KeyError">>)

HasToken(str, tok) == \E i \in 1..Len(str) : str[i] = tok

\* C9: given an empty retrieved_documents sequence, the answer declines to
\* answer (it states no claim) and contains no citation tag, whatever the
\* completion service returns.
C9_EmptyDocsDecline ==
    (qa_pc = "done" /\ qa_in.retrieved_documents = <<>>) =>
        /\ qa_ret.raised = FALSE
        /\ ~HasToken(qa_ret.value, "claim")
        /\ ~HasToken(qa_ret.value, CitationOpen)

(***************************************************************************)
(* Specification SpecStore: calls on one VectorStore                       *)
(***************************************************************************)
MaxAdd == 2
MaxK == 2

\* The chunks callers pass: those of a two-paragraph page, one kept whole and
\* one split.
StoreChunks ==
    LET cs == extract_text_with_metadata("a.pdf",
                  <<<<chunk_size, chunk_size + MinChunkLen>>>>)
    IN  {cs[1], cs[2]}

\* A store just constructed over an empty persist directory; no document open.
StoreInit ==
    /\ collection = <<>>
    /\ vs_call = [op |-> "__init__"]
    /\ vs_ret = Returned(NoValue)
    /\ vs_log = <<>>
    /\ seg_pc = "idle"
    /\ seg_doc = [filename |-> "", pages |-> <<>>]
    /\ seg_chunks = <<>>
    /\ api_key = TRUE
    /\ qa_pc = "idle"
    /\ qa_in = [query |-> "", retrieved_documents |-> <<>>]
    /\ qa_request = NoRequest
    /\ qa_resp = NoResponse
    /\ qa_ret = Returned(NoValue)
    /\ pdf_files = <<>>
    /\ dir_exists = FALSE
    /\ csv_files = <<>>
    /\ force_rebuild = FALSE
    /\ b_pc = "idle"
    /\ b_i = 0
    /\ extracted_chunks = <<>>
    /\ all_chunks = <<>>
    /\ b_log = <<>>
    /\ b_err = "none"
    /\ runs = 0
    /\ vs_query = NoQuery
    /\ load_pc = "idle"
    /\ attempt = 0
    /\ model = NoValue
    /\ load_calls = <<>>
    /\ sleeps = <<>>
    /\ load_ret = Returned(NoValue)
    /\ scan_pc = "idle"
    /\ scan_pos = [blocks |-> 0, lines |-> 0]
    /\ block = NoBlock
    /\ line = NoLine
    /\ paragraphs = <<>>
    /\ current_paragraph = <<>>
    /\ last_block_type = NoValue
    /\ last_y1 = 0
    /\ scan_ret = NoScan

VsReset ==
    /\ vs_call' = [op |-> "reset_collection"]
    /\ collection' = reset_collection(collection)
    /\ vs_log' = reset_log(collection)
    /\ vs_query' = NoQuery
    /\ vs_ret' = Returned(NoValue)
    /\ UNCHANGED <<segVars, qaVars, buildVars, loadVars, scanVars>>

\* collection.add of an empty id list is refused by some versions of the store
\* (ValueError) and accepted by others: either may happen.
VsAdd ==
    \E chunks \in SeqsUpTo(StoreChunks, MaxAdd) :
        /\ vs_call' = [op |-> "add_documents", chunks |-> chunks]
        /\ vs_query' = NoQuery
        /\ \/ /\ collection' = add_documents(collection, chunks)
              /\ vs_log' = add_log(collection, chunks)
              /\ vs_ret' = Returned(NoValue)
           \/ /\ Count(collection) = 0 /\ chunks = <<>>
              /\ collection' = collection
              /\ vs_log' = <<[msg |-> "adding", n |-> 0]>>
              /\ vs_ret' = Raised("ValueError")
        /\ UNCHANGED <<segVars, qaVars, buildVars, loadVars, scanVars>>

VsSearch ==
    \E top_k \in 1..MaxK, d \in [1..Len(collection) -> Distances] :
        /\ vs_call' = [op |-> "similarity_search", query |-> "q", top_k |-> top_k]
        /\ vs_query' = CollectionQuery(collection, top_k, d)
        /\ vs_ret' = Returned(similarity_search(collection, top_k, d))
        /\ vs_log' = <<>>
        /\ UNCHANGED <<collection, segVars, qaVars, buildVars, loadVars, scanVars>>

VsStats ==
    /\ vs_call' = [op |-> "get_stats"]
    /\ vs_ret' = Returned(get_stats(collection))
    /\ vs_query' = NoQuery
    /\ vs_log' = <<>>
    /\ UNCHANGED <<collection, segVars, qaVars, buildVars, loadVars, scanVars>>

StoreNext == VsReset \/ VsAdd \/ VsSearch \/ VsStats

SpecStore == StoreInit /\ [][StoreNext]_vars

(***************************************************************************)
(* Claims on the VectorStore, under SpecStore                              *)
(***************************************************************************)
\* C1: add_documents called on a collection that already holds a record is a
\* silent no-op: it raises nothing and leaves the records (so also their
\* count) as they were, whatever chunk list is passed.
C1_AddOnNonEmptyIsNoOp ==
    [][(vs_call'.op = "add_documents" /\ Len(collection) > 0) =>
           (collection' = collection /\ vs_ret'.raised = FALSE)]_vars

\* C1 witness: add_documents has refused a non-empty chunk list that differs
\* in length from what the collection holds.
C1_Witness ==
    /\ vs_call.op = "add_documents"
    /\ vs_call.chunks # <<>>
    /\ Len(collection) > 0
    /\ Len(vs_call.chunks) # Len(collection)
    /\ vs_log = <<[msg |-> "already_contains", n |-> Len(collection)]>>
    /\ vs_ret.raised = FALSE

\* C2: reset_collection succeeds and leaves zero records, from an empty and
\* from a populated collection; get_stats right after it reports
\* document_count 0; a second reset_collection changes nothing.
C2_ResetEmpties ==
    [][/\ vs_call'.op = "reset_collection" =>
              (collection' = <<>> /\ vs_ret'.raised = FALSE)
       /\ (vs_call.op = "reset_collection" /\ vs_call'.op = "get_stats") =>
              vs_ret'.value.document_count = 0
       /\ (vs_call.op = "reset_collection" /\ vs_call'.op = "reset_collection") =>
              collection' = collection]_vars

\* C2 witness: reset_collection has emptied a collection of two records.
C2_Witness ==
    /\ vs_call.op = "reset_collection"
    /\ vs_log = <<[msg |-> "resetting", n |-> 2], [msg |-> "reset"]>>
    /\ collection = <<>>

\* C10: similarity_search with top_k >= 1 raises nothing and returns at most
\* top_k results and at most as many as the collection holds; on an empty
\* collection it returns the empty sequence.
C10_SearchSizeBound ==
    vs_call.op = "similarity_search" =>
        /\ vs_ret.raised = FALSE
        /\ Len(vs_ret.value) <= vs_call.top_k
        /\ Len(vs_ret.value) <= Len(collection)
        /\ (collection = <<>> => vs_ret.value = <<>>)

\* C10 witness: a search for 1 result on a collection of two records has
\* returned exactly one.
C10_Witness ==
    /\ vs_call.op = "similarity_search"
    /\ vs_call.top_k = 1
    /\ Len(collection) = 2
    /\ Len(vs_ret.value) = 1

\* C11: every document that similarity_search returns has a similarity in
\* [0, 1] (0..DistScale in the units of the model), equal to 1 minus the cosine
\* distance the collection reported for it, whatever distance in [0, 2] that
\* is.
C11_SimilarityInUnitInterval ==
    (vs_call.op = "similarity_search" /\ ~vs_ret.raised) =>
        /\ Len(vs_ret.value) = Len(vs_query.distances)
        /\ \A j \in 1..Len(vs_ret.value) :
               /\ vs_ret.value[j].similarity = DistScale - vs_query.distances[j]
               /\ vs_ret.value[j].similarity >= 0
               /\ vs_ret.value[j].similarity <= DistScale

(***************************************************************************)
(* Specification SpecSeg: the Segmenter applied to one document            *)
(***************************************************************************)
MaxParaLen == 1400
MaxPages == 2
MaxParas == 2

\* Paragraph lengths of the multi-paragraph documents: skipped, kept whole,
\* split in three.
SampleLens == {MinParagraphLen - 1, chunk_size, 2 * Step(chunk_size, overlap) + MinChunkLen}

SegDocs ==
    {[filename |-> "a.pdf", pages |-> <<<<L>>>>] : L \in 0..MaxParaLen}
    \cup {[filename |-> "a.pdf", pages |-> ps] :
             ps \in SeqsUpTo(SeqsUpTo(SampleLens, MaxParas), MaxPages)}

SegInit ==
    /\ seg_pc = "ready"
    /\ seg_doc \in SegDocs
    /\ seg_chunks = <<>>
    /\ collection = <<>>
    /\ vs_call = [op |-> "__init__"]
    /\ vs_ret = Returned(NoValue)
    /\ vs_log = <<>>
    /\ api_key = TRUE
    /\ qa_pc = "idle"
    /\ qa_in = [query |-> "", retrieved_documents |-> <<>>]
    /\ qa_request = NoRequest
    /\ qa_resp = NoResponse
    /\ qa_ret = Returned(NoValue)
    /\ pdf_files = <<>>
    /\ dir_exists = FALSE
    /\ csv_files = <<>>
    /\ force_rebuild = FALSE
    /\ b_pc = "idle"
    /\ b_i = 0
    /\ extracted_chunks = <<>>
    /\ all_chunks = <<>>
    /\ b_log = <<>>
    /\ b_err = "none"
    /\ runs = 0
    /\ vs_query = NoQuery
    /\ load_pc = "idle"
    /\ attempt = 0
    /\ model = NoValue
    /\ load_calls = <<>>
    /\ sleeps = <<>>
    /\ load_ret = Returned(NoValue)
    /\ scan_pc = "idle"
    /\ scan_pos = [blocks |-> 0, lines |-> 0]
    /\ block = NoBlock
    /\ line = NoLine
    /\ paragraphs = <<>>
    /\ current_paragraph = <<>>
    /\ last_block_type = NoValue
    /\ last_y1 = 0
    /\ scan_ret = NoScan

SegExtract ==
    /\ seg_pc = "ready"
    /\ seg_chunks' = extract_text_with_metadata(seg_doc.filename, seg_doc.pages)
    /\ seg_pc' = "done"
    /\ UNCHANGED <<seg_doc, storeVars, qaVars, buildVars, loadVars, scanVars>>

SegNext == SegExtract

SpecSeg == SegInit /\ [][SegNext]_vars

\* C3: every chunk the Segmenter returns has a text of at least 10 characters,
\* of at most chunk_size characters when it carries a chunk_number, and has
\* page_number >= 1 and paragraph_number >= 1.
C3_ChunkBounds ==
    seg_pc = "done" =>
        \A j \in 1..Len(seg_chunks) :
            LET c == seg_chunks[j] IN
            /\ c.text.len >= 10
            /\ ("chunk_number" \in DOMAIN c.metadata => c.text.len <= chunk_size)
            /\ c.metadata.page_number >= 1
            /\ c.metadata.paragraph_number >= 1

\* C3 witness: a document whose second page yields a split chunk of full
\* length and an unsplit chunk.
C3_Witness ==
    /\ seg_pc = "done"
    /\ \E j \in 1..Len(seg_chunks) :
           /\ "chunk_number" \in DOMAIN seg_chunks[j].metadata
           /\ seg_chunks[j].text.len = chunk_size
           /\ seg_chunks[j].metadata.page_number = 2
    /\ \E j \in 1..Len(seg_chunks) :
           /\ "chunk_number" \notin DOMAIN seg_chunks[j].metadata
           /\ seg_chunks[j].metadata.paragraph_number = 2

\* The numbers n of the chunks a paragraph of length L > 500 keeps: chunk n
\* starts at (n-1)*450 inside the paragraph and has at least 50 characters.
C4_Kept(L) == {n \in 1..L : (n - 1) * 450 < L /\ L - (n - 1) * 450 >= 50}

\* C4: one cleaned paragraph of length L >= 10 (chunk_size 500, overlap 50)
\* gives, when L <= 500, exactly one chunk holding the whole paragraph with no
\* chunk_number; when L > 500, the chunks n = 1,2,3,... in increasing n, chunk
\* n starting at (n-1)*450 and at most 500 long, leaving out only a tail chunk
\* shorter than 50; L = 1200 gives chunks 1,2,3 at offsets 0, 450, 900.
C4_SplitOfOneParagraph ==
    (seg_pc = "done" /\ Len(seg_doc.pages) = 1 /\ Len(seg_doc.pages[1]) = 1
        /\ seg_doc.pages[1][1] >= 10) =>
    LET L == seg_doc.pages[1][1]
        n == Len(seg_chunks)
    IN  /\ L <= 500 =>
              /\ n = 1
              /\ seg_chunks[1].text.start = 0
              /\ seg_chunks[1].text.len = L
              /\ "chunk_number" \notin DOMAIN seg_chunks[1].metadata
        /\ L > 500 =>
              /\ n = Cardinality(C4_Kept(L))
              /\ \A j \in 1..n :
                    /\ "chunk_number" \in DOMAIN seg_chunks[j].metadata
                    /\ seg_chunks[j].metadata.chunk_number \in C4_Kept(L)
                    /\ seg_chunks[j].text.start =
                           (seg_chunks[j].metadata.chunk_number - 1) * 450
                    /\ seg_chunks[j].text.len <= 500
                    /\ seg_chunks[j].text.start + seg_chunks[j].text.len <= L
              /\ \A j \in 1..(n - 1) :
                    seg_chunks[j].metadata.chunk_number
                        < seg_chunks[j + 1].metadata.chunk_number
        /\ L = 1200 =>
              /\ n = 3
              /\ \A j \in 1..3 :
                    /\ seg_chunks[j].metadata.chunk_number = j
                    /\ seg_chunks[j].text.start = (j - 1) * 450

\* C4 witness: the 1200-character paragraph has been split in three, the last
\* chunk being the 300-character tail.
C4_Witness ==
    /\ seg_pc = "done"
    /\ seg_doc.pages = <<<<1200>>>>
    /\ Len(seg_chunks) = 3
    /\ seg_chunks[3].text = [of |-> <<"a.pdf", 0, 0>>, start |-> 900, len |-> 300]

(***************************************************************************)
(* extract_all_pdfs and setup_knowledge_base                               *)
(***************************************************************************)
\* A PDF file of pdf_dir: [stem, opens, parses, pages]. fitz.open raises on a
\* file with opens = FALSE; the page extraction raises on one with parses =
\* FALSE; pages holds the cleaned paragraph lengths of each page.
Filename(doc) == doc.stem \o ".pdf"

\* f"{os.path.splitext(self.filename)[0]}_extracted.csv"
CsvName(doc) == doc.stem \o "_extracted.csv"

\* save_extracted_text: the rows {"text": ..., **metadata} as a DataFrame
\* written by to_csv. The columns are the union of the rows' keys, a missing
\* cell is NaN; no chunk at all gives a file without columns.
WriteCsv(chunks) ==
    LET cols == {"text"} \cup UNION {DOMAIN chunks[i].metadata : i \in 1..Len(chunks)}
    IN  IF chunks = <<>>
        THEN [columns |-> {}, rows |-> <<>>]
        ELSE [columns |-> cols,
              rows |-> [i \in 1..Len(chunks) |->
                  [c \in cols |->
                      IF c = "text" THEN chunks[i].text
                      ELSE IF c \in DOMAIN chunks[i].metadata
                           THEN chunks[i].metadata[c]
                           ELSE "NaN"]]]

\* The metadata keys setup_knowledge_base copies from a row of the CSV.
LoadedKeys(csv) == {"source", "page_number", "paragraph_number", "total_pages"}

\* setup_knowledge_base, lines 53-65: the chunks rebuilt from the rows of one
\* CSV file.
LoadCsv(csv) ==
    [i \in 1..Len(csv.rows) |->
        [text |-> csv.rows[i]["text"],
         metadata |-> [k \in LoadedKeys(csv) |-> csv.rows[i][k]]]]

\* pd.read_csv of a file without columns raises EmptyDataError.
CsvUnreadable(csv) == csv.columns = {}

\* The orders os.listdir may give the names S in.
Orders(S) ==
    {o \in [1..Cardinality(S) -> S] :
        \A i, j \in 1..Cardinality(S) : i # j => o[i] # o[j]}

\* Line 27: the extraction step is skipped.
SkipExtraction_IgnoreForce(force, exists, nfiles) == exists /\ nfiles > 0
SkipExtraction(force, exists, nfiles) == ~force /\ exists /\ nfiles > 0

\* Line 42: the index build is skipped.
SkipIndexBuild(force, coll) == ~force /\ get_stats(coll).document_count > 0

(***************************************************************************)
(* Specification SpecBuild: runs of setup_knowledge_base, one after the    *)
(* other, over a disk and a collection that persist between them           *)
(***************************************************************************)
MaxBatch == 2
MaxRuns == 2

\* The files a batch is made of: one kept whole, one split in two chunks, one
\* that cannot be opened, one that cannot be parsed, one without any chunk.
BatchDocs ==
    {[stem |-> "a", opens |-> TRUE, parses |-> TRUE, pages |-> <<<<chunk_size>>>>],
     [stem |-> "b", opens |-> TRUE, parses |-> TRUE,
         pages |-> <<<<chunk_size + MinChunkLen>>>>],
     [stem |-> "c", opens |-> FALSE, parses |-> FALSE, pages |-> <<>>],
     [stem |-> "d", opens |-> TRUE, parses |-> FALSE, pages |-> <<<<chunk_size>>>>],
     [stem |-> "e", opens |-> TRUE, parses |-> TRUE,
         pages |-> <<<<MinParagraphLen - 1>>>>]}

Batches ==
    {b \in SeqsUpTo(BatchDocs, MaxBatch) :
        \A i, j \in 1..Len(b) : i # j => b[i] # b[j]}

BuildInit ==
    /\ pdf_files \in Batches
    /\ dir_exists = FALSE
    /\ csv_files = <<>>
    /\ collection = <<>>
    /\ force_rebuild = FALSE
    /\ b_pc = "idle"
    /\ b_i = 0
    /\ extracted_chunks = <<>>
    /\ all_chunks = <<>>
    /\ b_log = <<>>
    /\ b_err = "none"
    /\ runs = 0
    /\ vs_query = NoQuery
    /\ load_pc = "idle"
    /\ attempt = 0
    /\ model = NoValue
    /\ load_calls = <<>>
    /\ sleeps = <<>>
    /\ load_ret = Returned(NoValue)
    /\ scan_pc = "idle"
    /\ scan_pos = [blocks |-> 0, lines |-> 0]
    /\ block = NoBlock
    /\ line = NoLine
    /\ paragraphs = <<>>
    /\ current_paragraph = <<>>
    /\ last_block_type = NoValue
    /\ last_y1 = 0
    /\ scan_ret = NoScan
    /\ vs_call = [op |-> "__init__"]
    /\ vs_ret = Returned(NoValue)
    /\ vs_log = <<>>
    /\ seg_pc = "idle"
    /\ seg_doc = [filename |-> "", pages |-> <<>>]
    /\ seg_chunks = <<>>
    /\ api_key = TRUE
    /\ qa_pc = "idle"
    /\ qa_in = [query |-> "", retrieved_documents |-> <<>>]
    /\ qa_request = NoRequest
    /\ qa_resp = NoResponse
    /\ qa_ret = Returned(NoValue)

buildOthers == <<segVars, qaVars, vs_call, vs_ret, vs_log, vs_query, loadVars, scanVars>>

\* main(): the process starts and calls setup_knowledge_base with the flag of
\* its command line.
BuildStart ==
    /\ b_pc \in {"idle", "done", "raised"}
    /\ runs < MaxRuns
    /\ runs' = runs + 1
    /\ force_rebuild' \in BOOLEAN
    /\ b_pc' = "step1"
    /\ b_i' = 0
    /\ extracted_chunks' = <<>>
    /\ all_chunks' = <<>>
    /\ b_log' = <<>>
    /\ b_err' = "none"
    /\ UNCHANGED <<diskVars, collection, buildOthers>>

\* Lines 26-31: skip the extraction or enter extract_all_pdfs.
BuildExtractDecide ==
    /\ b_pc = "step1"
    /\ IF SkipExtraction(force_rebuild, dir_exists, Cardinality(DOMAIN csv_files))
       THEN /\ b_pc' = "step2"
            /\ b_log' = Append(b_log, "skip_extraction")
            /\ b_i' = b_i
       ELSE /\ b_pc' = "extracting"
            /\ b_log' = Append(b_log, "extracting")
            /\ b_i' = 1
    /\ UNCHANGED <<diskVars, collection, force_rebuild, extracted_chunks,
                   all_chunks, b_err, runs, buildOthers>>

\* extract_all_pdfs, one turn of the loop over pdf_files. PDFExtractor(pdf_path)
\* stands outside the try; the try has a finally and no except: an exception
\* of either leaves extract_all_pdfs and setup_knowledge_base.
ExtractOne ==
    /\ b_pc = "extracting"
    /\ b_i <= Len(pdf_files)
    /\ LET doc == pdf_files[b_i]
           chunks == extract_text_with_metadata(Filename(doc), doc.pages)
       IN  IF ~doc.opens
           THEN /\ b_pc' = "raised"
                /\ b_err' = [in |-> "extract_all_pdfs", file |-> Filename(doc),
                             what |-> "open"]
                /\ UNCHANGED <<b_i, extracted_chunks, dir_exists, csv_files>>
           ELSE IF ~doc.parses
           THEN /\ b_pc' = "raised"
                /\ b_err' = [in |-> "extract_all_pdfs", file |-> Filename(doc),
                             what |-> "parse"]
                /\ UNCHANGED <<b_i, extracted_chunks, dir_exists, csv_files>>
           ELSE /\ dir_exists' = TRUE
                /\ csv_files' =
                       [n \in DOMAIN csv_files \cup {CsvName(doc)} |->
                           IF n = CsvName(doc) THEN WriteCsv(chunks) ELSE csv_files[n]]
                /\ extracted_chunks' = extracted_chunks \o chunks
                /\ b_i' = b_i + 1
                /\ UNCHANGED <<b_pc, b_err>>
    /\ UNCHANGED <<pdf_files, collection, force_rebuild, all_chunks, b_log, runs,
                   buildOthers>>

\* extract_all_pdfs returns all_chunks.
ExtractReturn ==
    /\ b_pc = "extracting"
    /\ b_i > Len(pdf_files)
    /\ b_pc' = "step2"
    /\ b_log' = Append(b_log, "extracted")
    /\ UNCHANGED <<diskVars, collection, force_rebuild, b_i, extracted_chunks,
                   all_chunks, b_err, runs, buildOthers>>

\* Lines 36-39: the VectorStore is constructed over the persisted collection
\* and, with force_rebuild, reset.
BuildStore ==
    /\ b_pc = "step2"
    /\ IF force_rebuild
       THEN /\ collection' = reset_collection(collection)
            /\ b_log' = Append(b_log, "reset_collection")
       ELSE UNCHANGED <<collection, b_log>>
    /\ b_pc' = "index"
    /\ UNCHANGED <<diskVars, force_rebuild, b_i, extracted_chunks, all_chunks,
                   b_err, runs, buildOthers>>

\* Lines 42-43: the index build is skipped.
BuildIndexSkip ==
    /\ b_pc = "index"
    /\ SkipIndexBuild(force_rebuild, collection)
    /\ b_pc' = "step3"
    /\ b_log' = Append(b_log, "skip_index")
    /\ UNCHANGED <<diskVars, collection, force_rebuild, b_i, extracted_chunks,
                   all_chunks, b_err, runs, buildOthers>>

\* Lines 46-71: the chunks are loaded from every CSV of data/extracted, in
\* os.listdir order, and added. os.listdir raises when the directory is
\* missing, pd.read_csv on a file without columns.
BuildIndex ==
    /\ b_pc = "index"
    /\ ~SkipIndexBuild(force_rebuild, collection)
    /\ IF ~dir_exists
       THEN /\ b_pc' = "raised"
            /\ b_err' = [in |-> "setup_knowledge_base", file |-> "data/extracted",
                         what |-> "FileNotFoundError"]
            /\ UNCHANGED <<collection, all_chunks, b_log>>
       ELSE \E order \in Orders(DOMAIN csv_files) :
            IF \E i \in 1..Len(order) : CsvUnreadable(csv_files[order[i]])
            THEN /\ b_pc' = "raised"
                 /\ b_err' = [in |-> "setup_knowledge_base",
                              file |-> CHOOSE n \in DOMAIN csv_files :
                                           CsvUnreadable(csv_files[n]),
                              what |-> "EmptyDataError"]
                 /\ UNCHANGED <<collection, all_chunks, b_log>>
            ELSE /\ all_chunks' =
                        Concat([i \in 1..Len(order) |-> LoadCsv(csv_files[order[i]])])
                 /\ collection' = add_documents(collection, all_chunks')
                 /\ b_log' = Append(b_log, "add_documents")
                 /\ b_pc' = "step3"
                 /\ b_err' = b_err
    /\ UNCHANGED <<diskVars, force_rebuild, b_i, extracted_chunks, runs, buildOthers>>

\* Lines 75-78: QASystem() and the return.
BuildFinish ==
    /\ b_pc = "step3"
    /\ b_pc' = "done"
    /\ UNCHANGED <<diskVars, collection, force_rebuild, b_i, extracted_chunks,
                   all_chunks, b_log, b_err, runs, buildOthers>>

BuildNext ==
    \/ BuildStart \/ BuildExtractDecide \/ ExtractOne \/ ExtractReturn
    \/ BuildStore \/ BuildIndexSkip \/ BuildIndex \/ BuildFinish

SpecBuild == BuildInit /\ [][BuildNext]_vars

(***************************************************************************)
(* Claims on the build, under SpecBuild                                    *)
(***************************************************************************)
\* The files of the batch that open and parse.
C5_Readable == {i \in 1..Len(pdf_files) : pdf_files[i].opens /\ pdf_files[i].parses}

\* The chunks of the readable files, in batch order.
C5_ChunksOfReadable ==
    Concat([i \in 1..Len(pdf_files) |->
        IF i \in C5_Readable
        THEN extract_text_with_metadata(Filename(pdf_files[i]), pdf_files[i].pages)
        ELSE <<>>])

\* C5: a file that fails to open or to parse aborts the extraction of that
\* file only: once a run has entered the extraction step over a batch holding
\* a failing and a readable file and has ended, no exception has left
\* extract_all_pdfs, the CSV of every
\* readable file is on disk and the chunks returned are those of the readable
\* files, as if the failing file were absent.
C5_FailureIsolated ==
    (b_pc \in {"done", "raised"} /\ Len(b_log) >= 1 /\ b_log[1] = "extracting"
        /\ C5_Readable # {} /\ C5_Readable # 1..Len(pdf_files)) =>
        /\ (b_pc = "raised" => b_err.in # "extract_all_pdfs")
        /\ \A i \in C5_Readable : CsvName(pdf_files[i]) \in DOMAIN csv_files
        /\ extracted_chunks = C5_ChunksOfReadable

\* C6: every chunk the Segmenter emitted in a finished build is stored in the
\* collection verbatim: one record has the chunk's text and the chunk's
\* metadata keys (chunk_number among them when the chunk was split), each
\* value being the chunk's value written as a string.
C6_ChunksStoredVerbatim ==
    b_pc = "done" =>
        \A j \in 1..Len(extracted_chunks) :
            LET c == extracted_chunks[j] IN
            \E r \in 1..Len(collection) :
                /\ collection[r].document = c.text
                /\ DOMAIN collection[r].metadata = DOMAIN c.metadata
                /\ \A k \in DOMAIN c.metadata :
                       collection[r].metadata[k] =
                           (IF k = "source" THEN c.metadata[k]
                            ELSE ToString(c.metadata[k]))

\* C7: the decisions of the build. With force_rebuild the extraction is always
\* entered and the collection is reset before the add; without it the
\* extraction is skipped exactly when data/extracted exists and holds a file,
\* the index build is skipped exactly when the collection holds a record, and
\* each step not skipped is performed; and without force_rebuild a populated
\* collection is never changed.
C7_BuildDecisions ==
    [][/\ (b_pc = "step1" /\ b_pc' # "step1") =>
              /\ b_pc' \in {"step2", "extracting"}
              /\ (b_pc' = "step2") <=>
                     (~force_rebuild /\ dir_exists
                         /\ Cardinality(DOMAIN csv_files) > 0)
              /\ force_rebuild => b_pc' = "extracting"
       /\ (b_pc = "step2" /\ b_pc' # "step2") =>
              /\ b_pc' = "index"
              /\ force_rebuild => collection' = <<>>
       /\ (b_pc = "index" /\ b_pc' # "index") =>
              LET skipped == /\ b_pc' = "step3"
                             /\ collection' = collection
                             /\ b_log' = Append(b_log, "skip_index")
                  added == /\ b_pc' = "step3"
                           /\ b_log' = Append(b_log, "add_documents")
                           /\ Len(collection) = 0
                           /\ Len(collection') = Len(all_chunks')
              IN  /\ skipped <=> (~force_rebuild /\ Len(collection) > 0)
                  /\ ~skipped => (added \/ b_pc' = "raised")
                  /\ force_rebuild => ~skipped
       /\ (~force_rebuild' /\ Len(collection) > 0) => collection' = collection
      ]_vars

\* C7 witness: a run without force_rebuild has skipped the extraction and the
\* index build and finished, the collection populated.
C7_Witness ==
    /\ b_pc = "done"
    /\ ~force_rebuild
    /\ b_log = <<"skip_extraction", "skip_index">>
    /\ Len(collection) > 0

(***************************************************************************)
(* Specification SpecLoad: VectorStore.__init__ loading the embedding      *)
(* model (vector_store.py 53-79). The statements after the loop (81-88)    *)
(* open the collection and are not part of it.                             *)
(***************************************************************************)
max_retries == 3

\* wait_time = (attempt + 1) * 10
\* (a constant pause between the attempts)
wait_time_Flat(n) == 10
wait_time(n) == (n + 1) * 10

\* The exceptions a SentenceTransformer call may end with.
LoadErrors == {"OSError", "ConnectionError", "HTTPError"}

\* One SentenceTransformer(...) call: offline when made with
\* use_auth_token=False; outcome "ok" or the exception raised.
LoadCall(mode, outcome) == [mode |-> mode, outcome |-> outcome]

\* __init__ has reached the loop: for attempt in range(max_retries)
LoadInit ==
    /\ load_pc = "try"
    /\ attempt = 0
    /\ model = NoValue
    /\ load_calls = <<>>
    /\ sleeps = <<>>
    /\ load_ret = Returned(NoValue)
    /\ collection = <<>>
    /\ vs_call = [op |-> "__init__"]
    /\ vs_ret = Returned(NoValue)
    /\ vs_log = <<>>
    /\ vs_query = NoQuery
    /\ seg_pc = "idle"
    /\ seg_doc = [filename |-> "", pages |-> <<>>]
    /\ seg_chunks = <<>>
    /\ api_key = TRUE
    /\ qa_pc = "idle"
    /\ qa_in = [query |-> "", retrieved_documents |-> <<>>]
    /\ qa_request = NoRequest
    /\ qa_resp = NoResponse
    /\ qa_ret = Returned(NoValue)
    /\ pdf_files = <<>>
    /\ dir_exists = FALSE
    /\ csv_files = <<>>
    /\ force_rebuild = FALSE
    /\ b_pc = "idle"
    /\ b_i = 0
    /\ extracted_chunks = <<>>
    /\ all_chunks = <<>>
    /\ b_log = <<>>
    /\ b_err = "none"
    /\ runs = 0
    /\ scan_pc = "idle"
    /\ scan_pos = [blocks |-> 0, lines |-> 0]
    /\ block = NoBlock
    /\ line = NoLine
    /\ paragraphs = <<>>
    /\ current_paragraph = <<>>
    /\ last_block_type = NoValue
    /\ last_y1 = 0
    /\ scan_ret = NoScan

loadOthers == <<segVars, storeVars, qaVars, buildVars, scanVars>>

\* lines 55-61: the call returns the model; break
LoadOk ==
    /\ load_pc = "try"
    /\ attempt < max_retries
    /\ load_calls' = Append(load_calls, LoadCall("normal", "ok"))
    /\ model' = "SentenceTransformer"
    /\ load_pc' = "loaded"
    /\ UNCHANGED <<attempt, sleeps, load_ret, loadOthers>>

\* lines 62-68: the call raises e; time.sleep(wait_time) is entered when
\* another attempt is left, the offline attempt is next otherwise
LoadFail ==
    \E e \in LoadErrors :
        /\ load_pc = "try"
        /\ attempt < max_retries
        /\ load_calls' = Append(load_calls, LoadCall("normal", e))
        /\ IF attempt < max_retries - 1
           THEN /\ sleeps' = Append(sleeps, wait_time(attempt))
                /\ load_pc' = "sleep"
           ELSE /\ sleeps' = sleeps
                /\ load_pc' = "offline"
        /\ UNCHANGED <<attempt, model, load_ret, loadOthers>>

\* line 66 returns: the loop goes to its next attempt
LoadWake ==
    /\ load_pc = "sleep"
    /\ attempt' = attempt + 1
    /\ load_pc' = "try"
    /\ UNCHANGED <<model, load_calls, sleeps, load_ret, loadOthers>>

\* lines 69-76: the offline call returns the model; the loop is at its end
OfflineOk ==
    /\ load_pc = "offline"
    /\ load_calls' = Append(load_calls, LoadCall("offline", "ok"))
    /\ model' = "SentenceTransformer"
    /\ load_pc' = "loaded"
    /\ UNCHANGED <<attempt, sleeps, load_ret, loadOthers>>

\* lines 77-79: the offline call raises e, which leaves __init__
OfflineFail ==
    \E e \in LoadErrors :
        /\ load_pc = "offline"
        /\ load_calls' = Append(load_calls, LoadCall("offline", e))
        /\ load_pc' = "failed"
        /\ load_ret' = Raised(e)
        /\ UNCHANGED <<attempt, model, sleeps, loadOthers>>

LoadNext == LoadOk \/ LoadFail \/ LoadWake \/ OfflineOk \/ OfflineFail

\* __init__ is straight-line code on one thread: a call that is made returns
\* or raises, and a sleep ends.
SpecLoad == LoadInit /\ [][LoadNext]_vars /\ WF_vars(LoadNext)

(***************************************************************************)
(* Claim on loading the embedding model                                    *)
(***************************************************************************)
C12_Normal == SelectSeq(load_calls, LAMBDA c : c.mode = "normal")
C12_Offline == SelectSeq(load_calls, LAMBDA c : c.mode = "offline")
C12_Failures(calls) == SelectSeq(calls, LAMBDA c : c.outcome # "ok")
C12_Ended == load_pc \in {"loaded", "failed"}

\* What the calls made so far must look like.
C12_Schedule ==
    LET nfail == Len(C12_Failures(C12_Normal))
    IN  \* at most 3 normal attempts, then at most one offline attempt
        /\ Len(C12_Normal) <= 3
        /\ Len(C12_Offline) <= 1
        /\ load_calls = C12_Normal \o C12_Offline
        \* 10 s of sleep after the first failure, 20 s after the second,
        \* none after the third
        /\ sleeps = SubSeq(<<10, 20>>, 1, Min(nfail, 2))
        \* a success is the last call made and ends the loop
        /\ \A j \in 1..Len(load_calls) :
               load_calls[j].outcome = "ok" =>
                   j = Len(load_calls) /\ load_pc = "loaded"
        \* the offline attempt is made after the third failure, and only then
        /\ Len(C12_Offline) = 1 => nfail = 3
        /\ nfail = 3 => (load_pc = "offline" \/ Len(C12_Offline) = 1)
        \* the error reaches the caller only when the offline attempt failed
        /\ load_ret.raised <=>
               (load_calls # <<>> /\ load_calls[Len(load_calls)] =
                                         LoadCall("offline", load_ret.value))
        \* it ends loaded, with a model, or failed, with the error raised
        /\ load_pc = "loaded" <=> model # NoValue
        /\ load_pc = "failed" <=> load_ret.raised
        /\ C12_Ended <=>
               (load_calls # <<>> /\
                load_calls[Len(load_calls)].outcome = "ok")
               \/ C12_Failures(C12_Offline) # <<>>

\* C12: initialization makes at most 3 normal attempts to load the embedding
\* function, sleeping 10 s after the first failure and 20 s after the second;
\* the first success ends the loop with no further attempt; only after the
\* third failure one offline attempt is made, and only if it fails too does
\* the error reach the caller; initialization always ends, loaded or failed.
C12_LoadRetries == []C12_Schedule /\ <>C12_Ended /\ [](C12_Ended => []C12_Ended)

\* C12 witness: three failures, slept 10 s and 20 s, then loaded offline.
C12_Witness ==
    /\ load_pc = "loaded"
    /\ Len(C12_Failures(C12_Normal)) = 3
    /\ sleeps = <<10, 20>>
    /\ load_calls[4] = LoadCall("offline", "ok")

(***************************************************************************)
(* PDFExtractor._extract_paragraphs_from_page (pdf_extractor.py 60-149)    *)
(* A text is a sequence of characters here, since the scan looks at the    *)
(* leading and trailing ones.                                              *)
(***************************************************************************)
IsSpace(c) == c \in {" ", "\t"}

\* str.strip()
RECURSIVE LStrip(_)
LStrip(t) == IF t # <<>> /\ IsSpace(Head(t)) THEN LStrip(Tail(t)) ELSE t
RECURSIVE RStrip(_)
RStrip(t) ==
    IF t # <<>> /\ IsSpace(t[Len(t)]) THEN RStrip(SubSeq(t, 1, Len(t) - 1)) ELSE t
Strip(t) == RStrip(LStrip(t))

\* str.startswith(prefix)
startswith(t, prefix) ==
    Len(t) >= Len(prefix) /\ SubSeq(t, 1, Len(prefix)) = prefix

\* " ".join(texts)
RECURSIVE Join(_)
Join(texts) ==
    IF texts = <<>> THEN <<>>
    ELSE IF Len(texts) = 1 THEN texts[1]
    ELSE Head(texts) \o <<" ">> \o Join(Tail(texts))

\* lines 88-93: the texts of the spans that are not blank, each followed by a
\* space, then stripped
line_text(spans) ==
    Strip(Concat([j \in 1..Len(spans) |->
                     IF Strip(spans[j]) # <<>> THEN spans[j] \o <<" ">> ELSE <<>>]))

\* lines 98-110: is_new_paragraph for the line of text t in a block of type
\* block_type whose top is y0
is_new_paragraph(t, y0, block_type, prev_y1, prev_block_type) ==
    \/ startswith(t, <<" ", " ", " ", " ">>) \/ startswith(t, <<"\t">>)
    \/ (IF y0 >= prev_y1 THEN y0 - prev_y1 ELSE prev_y1 - y0) > 15
    \/ (prev_block_type # NoValue /\ prev_block_type # block_type)

\* re.search(r'[.。?？!！]$', p)
\* (the full-width characters are written by their code points)
EndsSentence(p) ==
    p # <<>> /\ p[Len(p)] \in {".", "U+3002", "?", "U+FF1F", "!", "U+FF01"}

\* lines 126-143: the loop over the paragraphs with temp_paragraph = temp and
\* merged_paragraphs = merged, and the flush after it
RECURSIVE MergeFrom(_, _, _)
MergeFrom(ps, temp, merged) ==
    IF ps = <<>>
    THEN IF temp # <<>> THEN Append(merged, Strip(temp)) ELSE merged
    ELSE LET p == Head(ps)
         IN  IF Len(p) < 30 /\ ~EndsSentence(p)
             THEN MergeFrom(Tail(ps), temp \o <<" ">> \o p, merged)
             ELSE IF temp # <<>>
                  THEN MergeFrom(Tail(ps), <<>>,
                                 Append(merged, Strip(temp \o <<" ">> \o p)))
                  ELSE MergeFrom(Tail(ps), <<>>, Append(merged, p))

(***************************************************************************)
(* Specification SpecScan: the scan of one page's blocks, a block or a     *)
(* line at a time, as page.get_text("dict") hands them over                *)
(***************************************************************************)
MaxBlocks == 2
MaxLines == 2
MaxSpans == 1

\* Block types; None is NoValue. The code reads block.get("type", 0) of any
\* block that has lines, so both types are given lines here.
BlockTypes == {"0", "1"}

\* Vertical coordinates, in layout units.
YCoords == {0, 10, 20, 40}

\* Span texts: plain, ending a sentence, indented by a tab, indented by four
\* spaces, blank.
SpanTexts ==
    {<<"a">>, <<"a", ".">>, <<"\t", "a">>, <<" ", " ", " ", " ", "a">>, <<" ">>}

Blocks == [has_lines : BOOLEAN, type : BlockTypes, y0 : YCoords]

\* The lines of a block: bbox[1] = top, bbox[3] = bottom.
Lines ==
    {ln \in [has_spans : BOOLEAN, spans : SeqsUpTo(SpanTexts, MaxSpans),
             top : YCoords, bottom : YCoords] :
        /\ ln.top < ln.bottom
        /\ ln.has_spans <=> ln.spans # <<>>}

\* The page has blocks (line 65); lines 69-72 ran.
ScanInit ==
    /\ scan_pc = "block"
    /\ scan_pos = [blocks |-> 0, lines |-> 0]
    /\ block = NoBlock
    /\ line = NoLine
    /\ paragraphs = <<>>
    /\ current_paragraph = <<>>
    /\ last_block_type = NoValue
    /\ last_y1 = 0
    /\ scan_ret = NoScan
    /\ load_pc = "idle"
    /\ attempt = 0
    /\ model = NoValue
    /\ load_calls = <<>>
    /\ sleeps = <<>>
    /\ load_ret = Returned(NoValue)
    /\ collection = <<>>
    /\ vs_call = [op |-> "__init__"]
    /\ vs_ret = Returned(NoValue)
    /\ vs_log = <<>>
    /\ vs_query = NoQuery
    /\ seg_pc = "idle"
    /\ seg_doc = [filename |-> "", pages |-> <<>>]
    /\ seg_chunks = <<>>
    /\ api_key = TRUE
    /\ qa_pc = "idle"
    /\ qa_in = [query |-> "", retrieved_documents |-> <<>>]
    /\ qa_request = NoRequest
    /\ qa_resp = NoResponse
    /\ qa_ret = Returned(NoValue)
    /\ pdf_files = <<>>
    /\ dir_exists = FALSE
    /\ csv_files = <<>>
    /\ force_rebuild = FALSE
    /\ b_pc = "idle"
    /\ b_i = 0
    /\ extracted_chunks = <<>>
    /\ all_chunks = <<>>
    /\ b_log = <<>>
    /\ b_err = "none"
    /\ runs = 0

scanOthers == <<segVars, storeVars, qaVars, buildVars, loadVars>>

\* lines 75-81: the next block; one without "lines" is passed over
ScanBlock ==
    \E b \in Blocks :
        /\ scan_pc = "block"
        /\ scan_pos.blocks < MaxBlocks
        /\ scan_pos' = [blocks |-> scan_pos.blocks + 1, lines |-> 0]
        /\ block' = b
        /\ scan_pc' = IF b.has_lines THEN "line" ELSE "block"
        /\ UNCHANGED <<line, paragraphs, current_paragraph, last_block_type,
                       last_y1, scan_ret, scanOthers>>

\* lines 84-118: the next line of the block. The block's box is the union of
\* its lines' boxes: its first line is at its top, no line is above it.
ScanLine ==
    \E ln \in Lines :
        /\ scan_pc = "line"
        /\ scan_pos.lines < MaxLines
        /\ IF scan_pos.lines = 0 THEN ln.top = block.y0 ELSE ln.top >= block.y0
        /\ scan_pos' = [scan_pos EXCEPT !.lines = @ + 1]
        /\ LET t == line_text(ln.spans)
               close == /\ is_new_paragraph(t, block.y0, block.type,
                                            last_y1, last_block_type)
                        /\ current_paragraph # <<>>
           IN  IF ~ln.has_spans \/ t = <<>>
               THEN UNCHANGED <<line, paragraphs, current_paragraph, last_y1>>
               ELSE /\ paragraphs' = IF close
                                     THEN Append(paragraphs, Join(current_paragraph))
                                     ELSE paragraphs
                    /\ current_paragraph' =
                           Append(IF close THEN <<>> ELSE current_paragraph, t)
                    /\ last_y1' = ln.bottom
                    /\ line' = [has_spans |-> TRUE, spans |-> ln.spans,
                                top |-> ln.top, bottom |-> ln.bottom,
                                block_type |-> block.type]
        /\ UNCHANGED <<scan_pc, block, last_block_type, scan_ret, scanOthers>>

\* line 120: the block's lines are read
ScanBlockEnd ==
    /\ scan_pc = "line"
    /\ last_block_type' = block.type
    /\ scan_pc' = "block"
    /\ UNCHANGED <<scan_pos, block, line, paragraphs, current_paragraph,
                   last_y1, scan_ret, scanOthers>>

\* lines 122-149: the blocks are read; the open paragraph is closed, short
\* paragraphs are merged, and an empty result falls back to
\* _extract_paragraphs_from_text
ScanReturn ==
    /\ scan_pc = "block"
    /\ scan_pos.blocks >= 1
    /\ paragraphs' = IF current_paragraph # <<>>
                     THEN Append(paragraphs, Join(current_paragraph))
                     ELSE paragraphs
    /\ LET merged_paragraphs == MergeFrom(paragraphs', <<>>, <<>>)
       IN  scan_ret' = [fallback |-> merged_paragraphs = <<>>,
                        value |-> merged_paragraphs]
    /\ scan_pc' = "done"
    /\ UNCHANGED <<scan_pos, block, line, current_paragraph, last_block_type,
                   last_y1, scanOthers>>

ScanNext == ScanBlock \/ ScanLine \/ ScanBlockEnd \/ ScanReturn

SpecScan == ScanInit /\ [][ScanNext]_vars

(***************************************************************************)
(* Claim on the layout scan                                                *)
(***************************************************************************)
\* The step read a line that has text.
C13_ReadText ==
    /\ scan_pc = "line" /\ scan_pc' = "line"
    /\ scan_pos'.lines = scan_pos.lines + 1
    /\ <<paragraphs, current_paragraph>>' # <<paragraphs, current_paragraph>>

\* C13: before a line that has text, read while a paragraph is open, a
\* paragraph break is placed exactly when (a) the line begins with a tab or
\* with four or more spaces, or (b) its top is more than 15 layout units below
\* the bottom of the previous line, or (c) its block's type differs from that
\* of the previous line's block; otherwise the line joins the open paragraph.
C13_BreakRule ==
    [][ (C13_ReadText /\ current_paragraph # <<>>) =>
            LET raw == Concat(line'.spans)
                t == line_text(line'.spans)
                a == \/ startswith(raw, <<" ", " ", " ", " ">>)
                     \/ startswith(raw, <<"\t">>)
                b == line'.top - line.bottom > 15
                c == line'.block_type # line.block_type
            IN  IF a \/ b \/ c
                THEN /\ paragraphs' = Append(paragraphs, Join(current_paragraph))
                     /\ current_paragraph' = <<t>>
                ELSE /\ paragraphs' = paragraphs
                     /\ current_paragraph' = Append(current_paragraph, t) ]_vars

====
